---- MODULE Spec2Model ----
(***************************************************************************)
(* The transaction layer of CreditAnalyzer: GasEstimator,                  *)
(* TransactionTracker and TransactionExecutor, one executeTransaction      *)
(* invocation from the call to the settlement of its promise.              *)
(*                                                                         *)
(* Every await of the source is a separate step: the environment (the      *)
(* provider, the contract, the ledger) decides how the awaited call ends,  *)
(* and the action that models the end runs the code up to the next await.  *)
(*                                                                         *)
(* Fees and prices are counted in gwei (the source counts wei; the only    *)
(* place the unit is visible is the default price of 20 gwei).             *)
(* An optional value is << >> when absent and <<v>> when present.          *)
(* An error message is a sequence of text fragments; String.includes is    *)
(* the occurrence of a fragment in the sequence.                           *)
(***************************************************************************)
EXTENDS Integers, Sequences, FiniteSets, TLC

VARIABLES
    pc,            \* position of executeTransaction
    options,       \* the destructured options of the invocation
    estPc,         \* position of estimateContractCall
    feeData,       \* estimateContractCall: const feeData
    rawGas,        \* estimateContractCall: const gasLimit (the raw estimate)
    gasEstimate,   \* executeTransaction: const gasEstimate
    txRequest,     \* the fee overrides sent with the contract call
    txHash,        \* tx.hash of the accepted submission
    trackPc,       \* position of trackTransaction
    waitCompletes, \* whether the ledger will ever answer the receipt wait
    elapsed,       \* time spent suspended in the receipt wait
    receipt,       \* the receipt returned by the wait
    error,         \* the raw error raised by the submission or by the wait
    updates,       \* the statuses delivered to onStatusUpdate, in order
    settled,       \* the settlements of the promise executeTransaction returned
    calls,         \* the calls the invocation made: estimates, submissions, receipt waits
    active,        \* the invocation the variables above belong to
    parked,        \* the other invocation, suspended at an await (none when alone)
    hasSubmittedCreditData, \* CreditAnalyzer: the users whose data was submitted
    isCreditEvaluated,      \* CreditAnalyzer: the users whose credit was evaluated
    totalEvaluations,       \* CreditAnalyzer: the count getEvaluationStats returns
    lastCall,      \* CreditAnalyzer: the last call made and how it ended
    fhevmInstance, \* fhe.ts: the shared FHE instance (none when not initialized)
    created,       \* fhe.ts: the number of instances createInstance has produced
    instances,     \* fhe.ts: the instances stored since the last resetFHE, in order
    tasks,         \* fhe.ts: the initializeFHE / encryptCreditData calls in flight
    lastFhe        \* fhe.ts: the last step taken and how it ended

\* The variables of one executeTransaction invocation.
frameVars == <<pc, options, estPc, feeData, rawGas, gasEstimate, txRequest, txHash,
               trackPc, waitCompletes, elapsed, receipt, error, updates, settled, calls>>

\* The state of the CreditAnalyzer contract.
contractVars == <<hasSubmittedCreditData, isCreditEvaluated, totalEvaluations, lastCall>>

\* The state of the FHE module.
fheVars == <<fhevmInstance, created, instances, tasks, lastFhe>>

\* What a step of an invocation leaves alone.
others == <<active, parked, contractVars, fheVars>>

vars == <<frameVars, active, parked, contractVars, fheVars>>

----
\* Bounds of the model.

MaxRawGas == 5
MaxFee == 2
MaxTimeout == 1
MaxElapsed == 2
MaxMessageLength == 2
MaxCreated == 2

----
\* Optional values.

None == << >>

Some(v) == <<v>>

\* JavaScript truthiness of an optional bigint: undefined, null and 0n are falsy.
Truthy(o) == o # None /\ o[1] # 0

Last(s) == s[Len(s)]

----
\* Program constants.

DefaultTimeout == 300000

DefaultConfirmations == 1

DefaultGasLimit == 200000

DefaultGasPrice == 20

DefaultEstimatedCost == 4000

WaitConfirmations == 1

UserRejectedCode == 4001

InternalErrorCode == -32603

\* tx.hash: the two invocations submit different transactions.
HashOf(invocation) == IF invocation = 1 THEN "0xhash1" ELSE "0xhash2"

TxHash == HashOf(active)

----
\* Errors and their messages. Every raw error carries a message, as the errors
\* of the provider and of the contract do.

Fragments == {"insufficient funds", "user rejected", "execution reverted", "nonce too low"}

Messages == UNION {[1..n -> Fragments] : n \in 1..MaxMessageLength}

\* error.code is absent, 4001 or -32603.
ErrorCodes == {None, Some(UserRejectedCode), Some(InternalErrorCode)}

Errors == [code : ErrorCodes, message : Messages]

ReceiptNotFound == [code |-> None, message |-> <<"Transaction receipt not found">>]

Includes(message, fragment) == \E i \in 1..Len(message) : message[i] = fragment

\* The classification with the two first message rules in the other order.
UserMessage_Reordered(err) ==
    IF err.code = Some(UserRejectedCode) THEN <<"Transaction cancelled by user">>
    ELSE IF err.code = Some(InternalErrorCode)
         THEN <<"Transaction failed - ", "insufficient funds", " or contract error">>
    ELSE IF Includes(err.message, "user rejected") THEN <<"Transaction rejected by user">>
    ELSE IF Includes(err.message, "insufficient funds")
         THEN <<"Insufficient ETH balance for gas fees">>
    ELSE IF Includes(err.message, "execution reverted")
         THEN <<"Contract execution failed - check your data">>
    ELSE err.message

\* The classification consulting the message before the code.
UserMessage_MessageFirst(err) ==
    IF Includes(err.message, "insufficient funds")
    THEN <<"Insufficient ETH balance for gas fees">>
    ELSE IF Includes(err.message, "user rejected") THEN <<"Transaction rejected by user">>
    ELSE IF Includes(err.message, "execution reverted")
         THEN <<"Contract execution failed - check your data">>
    ELSE IF err.code = Some(UserRejectedCode) THEN <<"Transaction cancelled by user">>
    ELSE IF err.code = Some(InternalErrorCode)
         THEN <<"Transaction failed - ", "insufficient funds", " or contract error">>
    ELSE err.message

\* The message executeTransaction shows for a raw error.
UserMessage(err) ==
    IF err.code = Some(UserRejectedCode) THEN <<"Transaction cancelled by user">>
    ELSE IF err.code = Some(InternalErrorCode)
         THEN <<"Transaction failed - ", "insufficient funds", " or contract error">>
    ELSE IF Includes(err.message, "insufficient funds")
         THEN <<"Insufficient ETH balance for gas fees">>
    ELSE IF Includes(err.message, "user rejected") THEN <<"Transaction rejected by user">>
    ELSE IF Includes(err.message, "execution reverted")
         THEN <<"Contract execution failed - check your data">>
    ELSE err.message

----
\* Status updates.

Status(hash, status, confirmations, err) ==
    [hash |-> hash, status |-> status, confirmations |-> confirmations, error |-> err]

IsTerminal(u) == u.status \in {"confirmed", "failed"}

----
\* GasEstimator.

OptFee == {None} \cup {Some(v) : v \in 0..MaxFee}

FeeDatas == [gasPrice : OptFee, maxFeePerGas : OptFee, maxPriorityFeePerGas : OptFee]

RawGasEstimates == 0..MaxRawGas

\* The buffer dividing before it multiplies.
BufferedGasLimit_DivideFirst(raw) == (raw \div 100) * 120

BufferedGasLimit(raw) == (raw * 120) \div 100

\* parseFloat(formatEther(cost)).toFixed(6), as a count of 10^-6 ETH; cost in gwei.
FormatCost(costGwei) == (costGwei + 500) \div 1000

DefaultEstimate ==
    [gasLimit |-> DefaultGasLimit, gasPrice |-> DefaultGasPrice,
     maxFeePerGas |-> None, maxPriorityFeePerGas |-> None,
     estimatedCost |-> DefaultEstimatedCost]

ComputedEstimate(fd, raw) ==
    LET bufferedGasLimit == BufferedGasLimit(raw)
        gasPrice == IF Truthy(fd.gasPrice) THEN fd.gasPrice[1] ELSE 0
        maxFeePerGas == IF ~Truthy(fd.maxFeePerGas) /\ gasPrice > 0
                        THEN Some(gasPrice) ELSE fd.maxFeePerGas
        price == IF Truthy(maxFeePerGas) THEN maxFeePerGas[1] ELSE gasPrice
    IN  [gasLimit |-> bufferedGasLimit,
         gasPrice |-> gasPrice,
         maxFeePerGas |-> IF Truthy(maxFeePerGas) THEN maxFeePerGas ELSE None,
         maxPriorityFeePerGas |-> IF Truthy(fd.maxPriorityFeePerGas)
                                  THEN fd.maxPriorityFeePerGas ELSE None,
         estimatedCost |-> FormatCost(bufferedGasLimit * price)]

\* The overrides carrying the legacy price whatever the estimate holds.
Overrides_AlwaysLegacy(est) ==
    [gasLimit |-> est.gasLimit,
     maxFeePerGas |-> est.maxFeePerGas,
     maxPriorityFeePerGas |-> est.maxPriorityFeePerGas,
     gasPrice |-> Some(est.gasPrice)]

\* The fee overrides executeTransaction passes to the contract call.
Overrides(est) ==
    [gasLimit |-> est.gasLimit,
     maxFeePerGas |-> est.maxFeePerGas,
     maxPriorityFeePerGas |-> est.maxPriorityFeePerGas,
     gasPrice |-> IF est.gasPrice # 0 /\ est.maxFeePerGas = None
                  THEN Some(est.gasPrice) ELSE None]

----
\* The accounts of the CreditAnalyzer tests: the deployer and two users.

Owner == "owner"

Users == {"owner", "user1", "user2"}

----
\* What the environment answers. A lone invocation is given every answer within
\* the bounds; two concurrent invocations are each given a sample of them.

Concurrent == parked # None

SampleFeeDatas ==
    {[gasPrice |-> Some(1), maxFeePerGas |-> None, maxPriorityFeePerGas |-> None],
     [gasPrice |-> Some(1), maxFeePerGas |-> Some(2), maxPriorityFeePerGas |-> Some(1)]}

SampleErrors ==
    {[code |-> None, message |-> <<"execution reverted">>],
     [code |-> Some(UserRejectedCode), message |-> <<"user rejected">>]}

FeeDataAnswers == IF Concurrent THEN SampleFeeDatas ELSE FeeDatas

RawGasAnswers == IF Concurrent THEN {1} ELSE RawGasEstimates

ErrorAnswers == IF Concurrent THEN SampleErrors ELSE Errors

----
\* The callers of the FHE module whose calls may be in flight together.
Tasks == {1, 2}

\* A caller with no call made.
IdleTask == [fn |-> "none", pc |-> "idle", instance |-> None, outcome |-> "none"]

----
\* Initial state: the executor is constructed, the contract is deployed, the
\* FHE module is loaded and nothing has been called.

NoCalls == [estimate |-> 0, submit |-> 0, wait |-> 0]


Init ==
    /\ pc = "idle"
    /\ options = None
    /\ estPc = "idle"
    /\ feeData = None
    /\ rawGas = None
    /\ gasEstimate = None
    /\ txRequest = None
    /\ txHash = None
    /\ trackPc = "idle"
    /\ waitCompletes = FALSE
    /\ elapsed = 0
    /\ receipt = None
    /\ error = None
    /\ updates = << >>
    /\ settled = << >>
    /\ calls = NoCalls
    /\ active = 1
    /\ parked = None
    /\ hasSubmittedCreditData = [u \in Users |-> FALSE]
    /\ isCreditEvaluated = [u \in Users |-> FALSE]
    /\ totalEvaluations = 0
    /\ lastCall = None
    /\ fhevmInstance = None
    /\ created = 0
    /\ instances = << >>
    /\ tasks = [t \in Tasks |-> IdleTask]
    /\ lastFhe = None

----
\* executeTransaction is called: the options are destructured with their
\* defaults and estimateContractCall starts with the fee-data query.

RequestedConfirmations == {None, Some(1), Some(2)}

RequestedTimeouts == {None} \cup {Some(t) : t \in 1..MaxTimeout}

ConfirmationRequests == IF Concurrent THEN {None} ELSE RequestedConfirmations

TimeoutRequests == IF Concurrent THEN {None} ELSE RequestedTimeouts

Destructure(confirmations, timeout) ==
    [confirmations |-> IF confirmations = None THEN DefaultConfirmations ELSE confirmations[1],
     timeout |-> IF timeout = None THEN DefaultTimeout ELSE timeout[1]]

Call ==
    /\ pc = "idle"
    /\ \E c \in ConfirmationRequests, t \in TimeoutRequests :
          options' = Some(Destructure(c, t))
    /\ pc' = "estimating"
    /\ estPc' = "getFeeData"
    /\ calls' = [calls EXCEPT !.estimate = @ + 1]
    /\ UNCHANGED <<feeData, rawGas, gasEstimate, txRequest, txHash, trackPc,
                   waitCompletes, elapsed, receipt, error, updates, settled>>
    /\ UNCHANGED others

----
\* The catch rethrowing the error it caught instead of the classified one.
CatchBlock_RethrowsRaw(err) ==
    /\ updates' = Append(updates, Status(None, "failed", 0, Some(UserMessage(err))))
    /\ settled' = Append(settled, [kind |-> "reject", receipt |-> None,
                                   message |-> err.message])
    /\ pc' = "raised"

\* The catch of executeTransaction: classify, emit 'failed', throw.
CatchBlock(err) ==
    /\ updates' = Append(updates, Status(None, "failed", 0, Some(UserMessage(err))))
    /\ settled' = Append(settled, [kind |-> "reject", receipt |-> None,
                                   message |-> UserMessage(err)])
    /\ pc' = "raised"

----
\* estimateContractCall.

GetFeeDataResolves ==
    /\ estPc = "getFeeData"
    /\ \E fd \in FeeDataAnswers : feeData' = Some(fd)
    /\ estPc' = "estimateGas"
    /\ UNCHANGED <<pc, options, rawGas, gasEstimate, txRequest, txHash, trackPc,
                   waitCompletes, elapsed, receipt, error, updates, settled, calls>>
    /\ UNCHANGED others

\* The catch of estimateContractCall: the default estimate is returned.
ReturnDefaultEstimate ==
    /\ gasEstimate' = Some(DefaultEstimate)
    /\ estPc' = "returned"
    /\ UNCHANGED <<pc, options, feeData, rawGas, txRequest, txHash, trackPc,
                   waitCompletes, elapsed, receipt, error, updates, settled, calls>>
    /\ UNCHANGED others

GetFeeDataRejects ==
    /\ estPc = "getFeeData"
    /\ ReturnDefaultEstimate

EstimateGasResolves ==
    /\ estPc = "estimateGas"
    /\ \E raw \in RawGasAnswers :
          /\ rawGas' = Some(raw)
          /\ gasEstimate' = Some(ComputedEstimate(feeData[1], raw))
    /\ estPc' = "returned"
    /\ UNCHANGED <<pc, options, feeData, txRequest, txHash, trackPc,
                   waitCompletes, elapsed, receipt, error, updates, settled, calls>>
    /\ UNCHANGED others

\* The gas-limit failure escaping estimateContractCall into the executor's catch.
EstimateGasRejects_Raises ==
    /\ estPc = "estimateGas"
    /\ estPc' = "raised"
    /\ \E err \in ErrorAnswers :
          /\ error' = Some(err)
          /\ CatchBlock(err)
    /\ UNCHANGED <<options, feeData, rawGas, gasEstimate, txRequest, txHash, trackPc,
                   waitCompletes, elapsed, receipt, calls>>
    /\ UNCHANGED others

EstimateGasRejects ==
    /\ estPc = "estimateGas"
    /\ ReturnDefaultEstimate

----
\* executeTransaction after the estimate: the 'pending' update and the
\* contract call with the fee overrides.

StartSubmit ==
    /\ pc = "estimating"
    /\ estPc = "returned"
    /\ updates' = Append(updates, Status(None, "pending", 0, None))
    /\ txRequest' = Some(Overrides(gasEstimate[1]))
    /\ calls' = [calls EXCEPT !.submit = @ + 1]
    /\ pc' = "submitting"
    /\ estPc' = "idle"
    /\ feeData' = None
    /\ rawGas' = None
    /\ UNCHANGED <<options, gasEstimate, txHash, trackPc, waitCompletes, elapsed,
                   receipt, error, settled>>
    /\ UNCHANGED others

\* A rejected submission that is nevertheless handed to the monitor.
SubmitRejects_ViaMonitor ==
    /\ pc = "submitting"
    /\ \E err \in ErrorAnswers :
          /\ error' = Some(err)
          /\ updates' = updates \o <<Status(None, "pending", 0, None),
                                     Status(None, "failed", 0, Some(err.message))>>
    /\ pc' = "tracking"
    /\ trackPc' = "raised"
    /\ UNCHANGED <<options, estPc, feeData, rawGas, gasEstimate, txRequest, txHash,
                   waitCompletes, elapsed, receipt, settled, calls>>
    /\ UNCHANGED others

SubmitRejects ==
    /\ pc = "submitting"
    /\ \E err \in ErrorAnswers :
          /\ error' = Some(err)
          /\ CatchBlock(err)
    /\ UNCHANGED <<options, estPc, feeData, rawGas, gasEstimate, txRequest, txHash,
                   trackPc, waitCompletes, elapsed, receipt, calls>>
    /\ UNCHANGED others

\* The submission is accepted: trackTransaction is called with tx.hash, emits
\* its own 'pending' and suspends in waitForTransaction.
SubmitResolves ==
    /\ pc = "submitting"
    /\ txHash' = Some(TxHash)
    /\ pc' = "tracking"
    /\ updates' = Append(updates, Status(Some(TxHash), "pending", 0, None))
    /\ trackPc' = "waiting"
    /\ calls' = [calls EXCEPT !.wait = @ + 1]
    /\ waitCompletes' \in BOOLEAN
    /\ elapsed' = 0
    /\ UNCHANGED <<options, estPc, feeData, rawGas, gasEstimate, txRequest,
                   receipt, error, settled>>
    /\ UNCHANGED others

----
\* trackTransaction.

ReceiptStatuses == {None, Some(0), Some(1)}

Receipts == [status : ReceiptStatuses]

\* The final status taking every status but 0 for a success.
FinalStatus_NotZero(rcpt) == IF rcpt.status # Some(0) THEN "confirmed" ELSE "failed"

\* receipt.status === 1 ? 'confirmed' : 'failed'
FinalStatus(rcpt) == IF rcpt.status = Some(1) THEN "confirmed" ELSE "failed"

\* Time passes while the invocation is suspended in the receipt wait.
Tick ==
    /\ trackPc = "waiting"
    /\ elapsed < MaxElapsed
    /\ elapsed' = elapsed + 1
    /\ UNCHANGED <<pc, options, estPc, feeData, rawGas, gasEstimate, txRequest, txHash,
                   trackPc, waitCompletes, receipt, error, updates, settled, calls>>
    /\ UNCHANGED others

WaitResolves ==
    /\ trackPc = "waiting"
    /\ waitCompletes
    /\ \E rcpt \in Receipts :
          /\ receipt' = Some(rcpt)
          /\ updates' = Append(updates,
                               Status(txHash, FinalStatus(rcpt), WaitConfirmations, None))
    /\ trackPc' = "returned"
    /\ elapsed' = 0
    /\ UNCHANGED <<pc, options, estPc, feeData, rawGas, gasEstimate, txRequest, txHash,
                   waitCompletes, error, settled, calls>>
    /\ UNCHANGED others

\* The catch rethrowing without the 'failed' update.
TrackerCatch_Silent(err) ==
    /\ error' = Some(err)
    /\ updates' = updates
    /\ trackPc' = "raised"
    /\ elapsed' = 0
    /\ UNCHANGED <<pc, options, estPc, feeData, rawGas, gasEstimate, txRequest, txHash,
                   waitCompletes, receipt, settled, calls>>
    /\ UNCHANGED others

\* The catch delivering its 'failed' to the callback of the latest caller, as
\* if the tracker kept the callback in a field of the shared instance.
TrackerCatch_SharedCallback(err) ==
    /\ error' = Some(err)
    /\ IF parked # None
       THEN /\ parked' = Some([parked[1] EXCEPT !.updates =
                    Append(@, Status(txHash, "failed", 0, Some(err.message)))])
            /\ updates' = updates
       ELSE /\ updates' = Append(updates, Status(txHash, "failed", 0, Some(err.message)))
            /\ parked' = parked
    /\ trackPc' = "raised"
    /\ elapsed' = 0
    /\ UNCHANGED <<pc, options, estPc, feeData, rawGas, gasEstimate, txRequest, txHash,
                   waitCompletes, receipt, settled, calls>>
    /\ UNCHANGED <<active, contractVars, fheVars>>

\* The catch throwing a new error of its own in place of the one it caught.
TrackerCatch_WrapsError(err) ==
    /\ error' = Some([code |-> None, message |-> <<"Transaction tracking failed">>])
    /\ updates' = Append(updates, Status(txHash, "failed", 0, Some(err.message)))
    /\ trackPc' = "raised"
    /\ elapsed' = 0
    /\ UNCHANGED <<pc, options, estPc, feeData, rawGas, gasEstimate, txRequest, txHash,
                   waitCompletes, receipt, settled, calls>>
    /\ UNCHANGED others

\* The catch of trackTransaction: emit 'failed' with the raw message, rethrow.
TrackerCatch(err) ==
    /\ error' = Some(err)
    /\ updates' = Append(updates, Status(txHash, "failed", 0, Some(err.message)))
    /\ trackPc' = "raised"
    /\ elapsed' = 0
    /\ UNCHANGED <<pc, options, estPc, feeData, rawGas, gasEstimate, txRequest, txHash,
                   waitCompletes, receipt, settled, calls>>
    /\ UNCHANGED others

\* The wait returns no receipt: 'Transaction receipt not found' is thrown.
WaitResolvesNull ==
    /\ trackPc = "waiting"
    /\ waitCompletes
    /\ TrackerCatch(ReceiptNotFound)

WaitRejects ==
    /\ trackPc = "waiting"
    /\ waitCompletes
    /\ \E err \in ErrorAnswers : TrackerCatch(err)

----
\* executeTransaction resumes after trackTransaction.

TrackReturns ==
    /\ pc = "tracking"
    /\ trackPc = "returned"
    /\ pc' = "returned"
    /\ settled' = Append(settled, [kind |-> "resolve", receipt |-> receipt,
                                   message |-> None])
    /\ UNCHANGED <<options, estPc, feeData, rawGas, gasEstimate, txRequest, txHash,
                   trackPc, waitCompletes, elapsed, receipt, error, updates, calls>>
    /\ UNCHANGED others

\* The catch submitting the call a second time after a failed wait.
TrackRaises_Retries ==
    /\ pc = "tracking"
    /\ trackPc = "raised"
    /\ IF calls.submit < 2
       THEN /\ pc' = "submitting"
            /\ calls' = [calls EXCEPT !.submit = @ + 1]
            /\ UNCHANGED <<updates, settled>>
       ELSE /\ CatchBlock(error[1])
            /\ UNCHANGED calls
    /\ trackPc' = "idle"
    /\ UNCHANGED <<options, estPc, feeData, rawGas, gasEstimate, txRequest, txHash,
                   waitCompletes, elapsed, receipt, error>>
    /\ UNCHANGED others

TrackRaises ==
    /\ pc = "tracking"
    /\ trackPc = "raised"
    /\ CatchBlock(error[1])
    /\ UNCHANGED <<options, estPc, feeData, rawGas, gasEstimate, txRequest, txHash,
                   trackPc, waitCompletes, elapsed, receipt, error, calls>>
    /\ UNCHANGED others

----

Next ==
    \/ Call
    \/ GetFeeDataResolves
    \/ GetFeeDataRejects
    \/ EstimateGasResolves
    \/ EstimateGasRejects
    \/ StartSubmit
    \/ SubmitRejects
    \/ SubmitResolves
    \/ Tick
    \/ WaitResolves
    \/ WaitResolvesNull
    \/ WaitRejects
    \/ TrackReturns
    \/ TrackRaises

Spec == Init /\ [][Next]_vars

----
\* Two concurrent invocations of executeTransaction on the same executor, for
\* different transactions and with different callbacks. Each has its own
\* locals; the event loop runs one of them from an await to its next await,
\* and may resume the other one at every await.

Frame ==
    [pc |-> pc,
     options |-> options,
     estPc |-> estPc,
     feeData |-> feeData,
     rawGas |-> rawGas,
     gasEstimate |-> gasEstimate,
     txRequest |-> txRequest,
     txHash |-> txHash,
     trackPc |-> trackPc,
     waitCompletes |-> waitCompletes,
     elapsed |-> elapsed,
     receipt |-> receipt,
     error |-> error,
     updates |-> updates,
     settled |-> settled,
     calls |-> calls]

InitialFrame ==
    [pc |-> "idle",
     options |-> None,
     estPc |-> "idle",
     feeData |-> None,
     rawGas |-> None,
     gasEstimate |-> None,
     txRequest |-> None,
     txHash |-> None,
     trackPc |-> "idle",
     waitCompletes |-> FALSE,
     elapsed |-> 0,
     receipt |-> None,
     error |-> None,
     updates |-> << >>,
     settled |-> << >>,
     calls |-> NoCalls]

\* The running invocation is suspended and the other one resumes.
Switch ==
    /\ parked # None
    /\ pc' = parked[1].pc
    /\ options' = parked[1].options
    /\ estPc' = parked[1].estPc
    /\ feeData' = parked[1].feeData
    /\ rawGas' = parked[1].rawGas
    /\ gasEstimate' = parked[1].gasEstimate
    /\ txRequest' = parked[1].txRequest
    /\ txHash' = parked[1].txHash
    /\ trackPc' = parked[1].trackPc
    /\ waitCompletes' = parked[1].waitCompletes
    /\ elapsed' = parked[1].elapsed
    /\ receipt' = parked[1].receipt
    /\ error' = parked[1].error
    /\ updates' = parked[1].updates
    /\ settled' = parked[1].settled
    /\ calls' = parked[1].calls
    /\ parked' = Some(Frame)
    /\ active' = 3 - active
    /\ UNCHANGED <<contractVars, fheVars>>

InitConcurrent ==
    /\ pc = InitialFrame.pc
    /\ options = InitialFrame.options
    /\ estPc = InitialFrame.estPc
    /\ feeData = InitialFrame.feeData
    /\ rawGas = InitialFrame.rawGas
    /\ gasEstimate = InitialFrame.gasEstimate
    /\ txRequest = InitialFrame.txRequest
    /\ txHash = InitialFrame.txHash
    /\ trackPc = InitialFrame.trackPc
    /\ waitCompletes = InitialFrame.waitCompletes
    /\ elapsed = InitialFrame.elapsed
    /\ receipt = InitialFrame.receipt
    /\ error = InitialFrame.error
    /\ updates = InitialFrame.updates
    /\ settled = InitialFrame.settled
    /\ calls = InitialFrame.calls
    /\ active = 1
    /\ parked = Some(InitialFrame)
    /\ hasSubmittedCreditData = [u \in Users |-> FALSE]
    /\ isCreditEvaluated = [u \in Users |-> FALSE]
    /\ totalEvaluations = 0
    /\ lastCall = None
    /\ fhevmInstance = None
    /\ created = 0
    /\ instances = << >>
    /\ tasks = [t \in Tasks |-> IdleTask]
    /\ lastFhe = None

NextConcurrent == Next \/ Switch

SpecConcurrent == InitConcurrent /\ [][NextConcurrent]_vars

----
\* Vocabulary of the properties.

Finished == pc \in {"returned", "raised"}

TerminalIndices == {i \in 1..Len(updates) : IsTerminal(updates[i])}

FailedIndices == {i \in 1..Len(updates) : updates[i].status = "failed"}

\* The updates trackTransaction emitted: the ones that carry the hash.
TrackerUpdates == SelectSeq(updates, LAMBDA u : u.hash # None)

----
\* C1: the updates of one executeTransaction invocation start with 'pending',
\* hold at most one 'confirming' and exactly one terminal update ('confirmed'
\* or 'failed'), and the terminal update is the last one: nothing is emitted
\* after it.
C1_StatusSequenceWellFormed ==
    /\ Len(updates) > 0 => updates[1].status = "pending"
    /\ Cardinality({i \in 1..Len(updates) : updates[i].status = "confirming"}) <= 1
    /\ Cardinality(TerminalIndices) <= 1
    /\ \A i \in TerminalIndices : i = Len(updates)
    /\ Finished => Cardinality(TerminalIndices) = 1

\* C2: when the submission was accepted and the ledger never answers the
\* receipt wait, then once options.timeout has elapsed the invocation has
\* failed and exactly one 'failed' update was emitted; it is not suspended
\* any more.
C2_TimeoutEndsTheWait ==
    (txHash # None /\ ~waitCompletes /\ elapsed > options[1].timeout)
        => (pc = "raised" /\ Cardinality(FailedIndices) = 1)

\* C3: a failure of executeTransaction is raised to the caller once; the last
\* update before the raise is 'failed' with the classified message as its
\* error, and the raised error carries the same classified message.
C3_FailureSurfacedOnce ==
    /\ Len(settled) <= 1
    /\ Finished <=> Len(settled) = 1
    /\ pc = "raised" =>
          /\ settled[1].kind = "reject"
          /\ error # None
          /\ settled[1].message = UserMessage(error[1])
          /\ Last(updates) = Status(None, "failed", 0, Some(settled[1].message))

C3_Witness ==
    /\ pc = "raised"
    /\ txHash # None
    /\ error[1].code = None
    /\ error[1].message = <<"nonce too low", "execution reverted">>
    /\ settled[1].message = <<"Contract execution failed - check your data">>

\* C4: trackTransaction emits one 'pending' update with confirmations 0, then
\* one terminal update when the wait returns a receipt, returns none or
\* raises, and nothing after the terminal update.
C4_TrackerPendingThenTerminal ==
    /\ trackPc = "idle" => TrackerUpdates = << >>
    /\ trackPc = "waiting" => TrackerUpdates = <<Status(txHash, "pending", 0, None)>>
    /\ trackPc \in {"returned", "raised"} =>
          /\ Len(TrackerUpdates) = 2
          /\ TrackerUpdates[1] = Status(txHash, "pending", 0, None)
          /\ IsTerminal(TrackerUpdates[2])

C4_Witness ==
    /\ trackPc = "raised"
    /\ error = Some(ReceiptNotFound)
    /\ Len(TrackerUpdates) = 2
    /\ TrackerUpdates[2].status = "failed"

\* C5: for a raw gas estimate r > 0 the returned gasLimit is ceil(r * 1.2):
\* it is never rounded down.
C5_GasLimitIsCeiling ==
    (estPc = "returned" /\ rawGas # None /\ rawGas[1] > 0)
        => gasEstimate[1].gasLimit = (rawGas[1] * 120 + 99) \div 100

\* C6: estimateContractCall never raises; when the fee-data query or the
\* gas-limit query fails it returns the default estimate (gasLimit 200000,
\* gasPrice 20 gwei, no maxFeePerGas, no maxPriorityFeePerGas), and
\* executeTransaction neither fails nor emits 'failed' because of it: a
\* failure comes only after the call was submitted.
C6_EstimatorNeverRaises ==
    /\ estPc # "raised"
    /\ estPc = "returned" =>
          /\ gasEstimate # None
          /\ pc = "estimating"
          /\ updates = << >>
          /\ settled = << >>
    /\ (estPc = "returned" /\ rawGas = None) =>
          /\ gasEstimate[1].gasLimit = 200000
          /\ gasEstimate[1].gasPrice = 20
          /\ gasEstimate[1].maxFeePerGas = None
          /\ gasEstimate[1].maxPriorityFeePerGas = None
    /\ (pc = "raised" \/ FailedIndices # {}) => txRequest # None

C6_Witness ==
    /\ pc = "submitting"
    /\ gasEstimate = Some(DefaultEstimate)
    /\ updates = <<Status(None, "pending", 0, None)>>
    /\ settled = << >>

\* C7: a returned estimate populates exactly one fee scheme: the legacy gas
\* price alone, or maxFeePerGas with maxPriorityFeePerGas and no legacy
\* price; never both, never neither.
C7_ExactlyOneFeeScheme ==
    estPc = "returned" =>
        LET est == gasEstimate[1]
            legacyOnly == /\ est.gasPrice # 0
                          /\ est.maxFeePerGas = None
                          /\ est.maxPriorityFeePerGas = None
            dynamicOnly == /\ est.gasPrice = 0
                           /\ est.maxFeePerGas # None
                           /\ est.maxPriorityFeePerGas # None
        IN  legacyOnly \/ dynamicOnly

\* C8 as stated: the classified message is decided by the message alone:
\* "insufficient funds" gives 'Insufficient ETH balance for gas fees',
\* "user rejected" gives 'Transaction rejected by user', "execution reverted"
\* gives 'Contract execution failed - check your data', and a message with
\* none of them is passed through.
C8_ClassifiedByMessageAlone ==
    pc = "raised" =>
        LET raw == error[1].message
            shown == settled[1].message
        IN  /\ Includes(raw, "insufficient funds")
                  => shown = <<"Insufficient ETH balance for gas fees">>
            /\ Includes(raw, "user rejected")
                  => shown = <<"Transaction rejected by user">>
            /\ Includes(raw, "execution reverted")
                  => shown = <<"Contract execution failed - check your data">>
            /\ (~Includes(raw, "insufficient funds") /\ ~Includes(raw, "user rejected")
                   /\ ~Includes(raw, "execution reverted"))
                  => shown = raw

\* C8 amended: for a raw error whose code is neither 4001 nor -32603 the
\* classified message is decided by the message, the first matching rule
\* winning: "insufficient funds", else "user rejected", else "execution
\* reverted", else the message is passed through verbatim.
C8_ClassifiedByFirstMatchingRule ==
    (pc = "raised" /\ error[1].code \notin {Some(4001), Some(-32603)}) =>
        LET raw == error[1].message
            shown == settled[1].message
            funds == Includes(raw, "insufficient funds")
            rejected == Includes(raw, "user rejected")
            reverted == Includes(raw, "execution reverted")
        IN  /\ funds => shown = <<"Insufficient ETH balance for gas fees">>
            /\ (~funds /\ rejected) => shown = <<"Transaction rejected by user">>
            /\ (~funds /\ ~rejected /\ reverted)
                  => shown = <<"Contract execution failed - check your data">>
            /\ (~funds /\ ~rejected /\ ~reverted) => shown = raw

C8_Witness ==
    /\ pc = "raised"
    /\ error[1].code = None
    /\ error[1].message = <<"user rejected", "insufficient funds">>
    /\ settled[1].message = <<"Insufficient ETH balance for gas fees">>

\* C9: when the wait returns a receipt the terminal update is 'confirmed'
\* exactly when the receipt's status is 1 and 'failed' otherwise; with a
\* failed receipt nothing is raised: trackTransaction and executeTransaction
\* return the receipt, and the single 'failed' update is the only signal.
C9_ReceiptDecidesTerminalStatus ==
    /\ pc = "returned" => trackPc = "returned"
    /\ trackPc = "returned" =>
          /\ receipt # None
          /\ error = None
          /\ Last(TrackerUpdates).status
                = (IF receipt[1].status = Some(1) THEN "confirmed" ELSE "failed")
          /\ Cardinality(FailedIndices) = (IF receipt[1].status = Some(1) THEN 0 ELSE 1)
          /\ pc \in {"tracking", "returned"}
          /\ pc = "returned" =>
                settled = <<[kind |-> "resolve", receipt |-> receipt, message |-> None]>>

C9_Witness ==
    /\ pc = "returned"
    /\ receipt = Some([status |-> Some(0)])
    /\ Last(updates).status = "failed"
    /\ settled[1].kind = "resolve"

\* C10: when the contract call raises, the monitor is not invoked: no receipt
\* wait is started, no update carries a hash, and the updates are one
\* 'pending' followed by one 'failed' with the classified message.
C10_RejectedSubmissionSkipsMonitor ==
    (pc = "raised" /\ txHash = None) =>
        /\ trackPc = "idle"
        /\ receipt = None
        /\ TrackerUpdates = << >>
        /\ updates = <<Status(None, "pending", 0, None),
                       Status(None, "failed", 0, Some(UserMessage(error[1])))>>

C10_Witness ==
    /\ pc = "raised"
    /\ txHash = None
    /\ error[1].code = Some(4001)
    /\ Last(updates).error = Some(<<"Transaction cancelled by user">>)

\* C11: the terminal update emitted on a receipt carries the confirmation
\* count requested in options.confirmations (default 1), and the receipt wait
\* is made for that count.
C11_TerminalCarriesRequestedConfirmations ==
    /\ calls.wait > 0 => WaitConfirmations = options[1].confirmations
    /\ trackPc = "returned" =>
          Last(TrackerUpdates).confirmations = options[1].confirmations

\* C12: no retries: within one invocation the estimate is computed at most
\* once, the call is submitted at most once and the receipt wait is started
\* at most once, whatever fails.
C12_NoRetries ==
    /\ calls.estimate <= 1
    /\ calls.submit <= 1
    /\ calls.wait <= 1
    /\ calls.wait <= calls.submit
    /\ calls.submit <= calls.estimate
    /\ Finished => calls.submit = 1

C12_Witness ==
    /\ pc = "raised"
    /\ txHash # None
    /\ error[1].message = <<"nonce too low">>
    /\ calls = [estimate |-> 1, submit |-> 1, wait |-> 1]

----
\* What one invocation that runs alone has delivered to its callback, and how
\* its promise has settled, at each position of the invocation.

ExpectedUpdates(f, hash) ==
    LET pending == Status(None, "pending", 0, None)
        tracking == Status(Some(hash), "pending", 0, None)
    IN  IF f.pc \in {"idle", "estimating"} THEN << >>
        ELSE IF f.pc = "submitting" THEN <<pending>>
        ELSE IF f.trackPc = "waiting" THEN <<pending, tracking>>
        ELSE IF f.trackPc = "returned"
             THEN <<pending, tracking,
                    Status(Some(hash), FinalStatus(f.receipt[1]), WaitConfirmations, None)>>
        ELSE IF f.pc = "tracking"
             THEN <<pending, tracking,
                    Status(Some(hash), "failed", 0, Some(f.error[1].message))>>
        ELSE IF f.txHash = None
             THEN <<pending, Status(None, "failed", 0, Some(UserMessage(f.error[1])))>>
        ELSE <<pending, tracking,
               Status(Some(hash), "failed", 0, Some(f.error[1].message)),
               Status(None, "failed", 0, Some(UserMessage(f.error[1])))>>

ExpectedSettled(f) ==
    IF f.pc = "returned"
    THEN <<[kind |-> "resolve", receipt |-> f.receipt, message |-> None]>>
    ELSE IF f.pc = "raised"
    THEN <<[kind |-> "reject", receipt |-> None, message |-> UserMessage(f.error[1])]>>
    ELSE << >>

RunsAsIfAlone(f, invocation) ==
    /\ f.txHash \in {None, Some(HashOf(invocation))}
    /\ \A i \in 1..Len(f.updates) :
          f.updates[i].hash \in {None, Some(HashOf(invocation))}
    /\ f.updates = ExpectedUpdates(f, HashOf(invocation))
    /\ f.settled = ExpectedSettled(f)

\* C13: for every interleaving of two concurrent invocations at their awaits,
\* each callback receives the updates of its own invocation only, and the
\* updates and the result of each invocation are those of a lone run.
C13_InvocationsAreIsolated ==
    /\ parked # None
    /\ RunsAsIfAlone(Frame, active)
    /\ RunsAsIfAlone(parked[1], 3 - active)

C13_Witness ==
    /\ parked # None
    /\ pc = "raised"
    /\ txHash # None
    /\ Len(updates) = 4
    /\ parked[1].pc = "returned"
    /\ Len(parked[1].updates) = 3
    /\ parked[1].updates[2].hash # updates[2].hash

----
\* The CreditAnalyzer contract, as its test suite exercises it. A call is made
\* by an account; it either succeeds ("ok") or reverts with a reason and
\* changes nothing.

Called(fn, caller, target, result) ==
    lastCall' = Some([fn |-> fn, caller |-> caller, target |-> target, result |-> result])

SubmitResult_AllowsResubmission(caller) == "ok"

SubmitResult(caller) ==
    IF hasSubmittedCreditData[caller] THEN "Data already submitted" ELSE "ok"

SubmitCreditData ==
    /\ \E caller \in Users :
          /\ Called("submitCreditData", caller, caller, SubmitResult(caller))
          /\ IF SubmitResult(caller) = "ok"
             THEN hasSubmittedCreditData' = [hasSubmittedCreditData EXCEPT ![caller] = TRUE]
             ELSE UNCHANGED hasSubmittedCreditData
    /\ UNCHANGED <<isCreditEvaluated, totalEvaluations>>
    /\ UNCHANGED <<frameVars, active, parked, fheVars>>

EvaluateResult_NoSubmissionCheck(caller, target) ==
    IF isCreditEvaluated[target] THEN "Already evaluated"
    ELSE IF caller \notin {target, Owner} THEN "Not authorized to evaluate"
    ELSE "ok"

EvaluateResult_NoAuthorizationCheck(caller, target) ==
    IF ~hasSubmittedCreditData[target] THEN "No credit data submitted"
    ELSE IF isCreditEvaluated[target] THEN "Already evaluated"
    ELSE "ok"

EvaluateResult(caller, target) ==
    IF ~hasSubmittedCreditData[target] THEN "No credit data submitted"
    ELSE IF isCreditEvaluated[target] THEN "Already evaluated"
    ELSE IF caller \notin {target, Owner} THEN "Not authorized to evaluate"
    ELSE "ok"

EvaluateCreditScore ==
    /\ \E caller \in Users, target \in Users :
          /\ Called("evaluateCreditScore", caller, target, EvaluateResult(caller, target))
          /\ IF EvaluateResult(caller, target) = "ok"
             THEN /\ isCreditEvaluated' = [isCreditEvaluated EXCEPT ![target] = TRUE]
                  /\ totalEvaluations' = totalEvaluations + 1
             ELSE UNCHANGED <<isCreditEvaluated, totalEvaluations>>
    /\ UNCHANGED hasSubmittedCreditData
    /\ UNCHANGED <<frameVars, active, parked, fheVars>>

LoanResult_NoEvaluationCheck(caller) ==
    IF ~hasSubmittedCreditData[caller] THEN "No credit data submitted" ELSE "ok"

LoanResult(caller) ==
    IF ~hasSubmittedCreditData[caller] THEN "No credit data submitted"
    ELSE IF ~isCreditEvaluated[caller] THEN "Credit not evaluated yet"
    ELSE "ok"

RequestLoanApproval ==
    /\ \E caller \in Users :
          Called("requestLoanApproval", caller, caller, LoanResult(caller))
    /\ UNCHANGED <<hasSubmittedCreditData, isCreditEvaluated, totalEvaluations>>
    /\ UNCHANGED <<frameVars, active, parked, fheVars>>

ReadResult_NoAuthorizationCheck(caller, user) ==
    IF ~isCreditEvaluated[user] THEN "Not evaluated" ELSE "ok"

\* getEncryptedCreditScore and getEncryptedLoanApproval guard alike.
ReadResult(caller, user) ==
    IF caller \notin {user, Owner} THEN "Not authorized"
    ELSE IF ~isCreditEvaluated[user] THEN "Not evaluated"
    ELSE "ok"

GetEncryptedCreditScore ==
    /\ \E caller \in Users, user \in Users :
          Called("getEncryptedCreditScore", caller, user, ReadResult(caller, user))
    /\ UNCHANGED <<hasSubmittedCreditData, isCreditEvaluated, totalEvaluations>>
    /\ UNCHANGED <<frameVars, active, parked, fheVars>>

GetEncryptedLoanApproval ==
    /\ \E caller \in Users, user \in Users :
          Called("getEncryptedLoanApproval", caller, user, ReadResult(caller, user))
    /\ UNCHANGED <<hasSubmittedCreditData, isCreditEvaluated, totalEvaluations>>
    /\ UNCHANGED <<frameVars, active, parked, fheVars>>

NextContract ==
    \/ SubmitCreditData
    \/ EvaluateCreditScore
    \/ RequestLoanApproval
    \/ GetEncryptedCreditScore
    \/ GetEncryptedLoanApproval

SpecContract == Init /\ [][NextContract]_vars

\* The call a step of the contract made.
StepIs(fn) == lastCall' # None /\ lastCall'[1].fn = fn

Evaluated == {u \in Users : isCreditEvaluated[u]}

----
\* C14: the contract's evaluation counter is 0 at deployment and always equals
\* the number of users whose credit is evaluated, and only users who have
\* submitted credit data are evaluated.
C14_CounterCountsEvaluatedUsers ==
    /\ lastCall = None => totalEvaluations = 0
    /\ totalEvaluations = Cardinality(Evaluated)
    /\ \A u \in Users : isCreditEvaluated[u] => hasSubmittedCreditData[u]

\* Two users are evaluated, one of them by the owner, and the counter is 2.
C14_Witness ==
    /\ totalEvaluations = 2
    /\ isCreditEvaluated["user1"] /\ isCreditEvaluated["user2"]
    /\ lastCall # None
    /\ lastCall[1] = [fn |-> "evaluateCreditScore", caller |-> Owner,
                      target |-> "user2", result |-> "ok"]

\* C15: evaluateCreditScore succeeds exactly when the target has submitted, is
\* not yet evaluated and the caller is the target or the owner; a success marks
\* the target evaluated and counts it once; a revert names a condition that
\* fails and leaves the evaluation flags and the counter unchanged.
C15_EvaluationIsGuarded ==
    [][StepIs("evaluateCreditScore") =>
          LET c == lastCall'[1].caller
              t == lastCall'[1].target
              r == lastCall'[1].result
          IN  /\ r = "ok" <=> /\ hasSubmittedCreditData[t]
                              /\ ~isCreditEvaluated[t]
                              /\ c \in {t, Owner}
              /\ r = "ok" =>
                    /\ isCreditEvaluated' = [isCreditEvaluated EXCEPT ![t] = TRUE]
                    /\ totalEvaluations' = totalEvaluations + 1
              /\ r # "ok" =>
                    /\ r \in {"No credit data submitted", "Already evaluated",
                              "Not authorized to evaluate"}
                    /\ UNCHANGED <<isCreditEvaluated, totalEvaluations>>
              /\ r = "No credit data submitted" => ~hasSubmittedCreditData[t]
              /\ r = "Already evaluated" => isCreditEvaluated[t]
              /\ r = "Not authorized to evaluate" => c \notin {t, Owner}]_vars

\* user1 tried to evaluate user2, who has submitted, and was turned away.
C15_Witness ==
    /\ lastCall # None
    /\ lastCall[1] = [fn |-> "evaluateCreditScore", caller |-> "user1",
                      target |-> "user2", result |-> "Not authorized to evaluate"]
    /\ hasSubmittedCreditData["user2"] /\ ~isCreditEvaluated["user2"]
    /\ isCreditEvaluated["user1"]

\* C16: a user's evaluation happens only once the user has submitted, and
\* requestLoanApproval succeeds only once the user is also evaluated: it
\* reverts with "No credit data submitted" before the submission and with
\* "Credit not evaluated yet" between the submission and the evaluation.
C16_LoanRequestFollowsLifecycle ==
    [][/\ \A u \in Users :
             isCreditEvaluated'[u] /\ ~isCreditEvaluated[u] => hasSubmittedCreditData[u]
       /\ \A u \in Users : hasSubmittedCreditData[u] => hasSubmittedCreditData'[u]
       /\ \A u \in Users : isCreditEvaluated[u] => isCreditEvaluated'[u]
       /\ StepIs("requestLoanApproval") =>
             LET u == lastCall'[1].caller
                 r == lastCall'[1].result
             IN  /\ r = "ok" <=> hasSubmittedCreditData[u] /\ isCreditEvaluated[u]
                 /\ r = "No credit data submitted" <=> ~hasSubmittedCreditData[u]
                 /\ r = "Credit not evaluated yet" <=>
                       hasSubmittedCreditData[u] /\ ~isCreditEvaluated[u]]_vars

\* user1 asked for a loan after submitting but before being evaluated.
C16_Witness ==
    /\ lastCall # None
    /\ lastCall[1] = [fn |-> "requestLoanApproval", caller |-> "user1",
                      target |-> "user1", result |-> "Credit not evaluated yet"]
    /\ hasSubmittedCreditData["user1"] /\ ~isCreditEvaluated["user1"]

\* C17: the encrypted score and the encrypted loan approval of a user are
\* handed out exactly when the user is evaluated and the caller is the user or
\* the owner; "Not authorized" is given only to another caller, "Not
\* evaluated" only for a user who is not evaluated.
C17_ReadsAreGuarded ==
    (lastCall # None
        /\ lastCall[1].fn \in {"getEncryptedCreditScore", "getEncryptedLoanApproval"}) =>
       LET c == lastCall[1].caller
           u == lastCall[1].target
           r == lastCall[1].result
       IN  /\ r = "ok" <=> isCreditEvaluated[u] /\ c \in {u, Owner}
           /\ r \in {"ok", "Not authorized", "Not evaluated"}
           /\ r = "Not authorized" => c \notin {u, Owner}
           /\ r = "Not evaluated" => ~isCreditEvaluated[u]

\* user2 asked for the score of user1, who is evaluated, and was turned away.
C17_Witness ==
    /\ lastCall # None
    /\ lastCall[1] = [fn |-> "getEncryptedCreditScore", caller |-> "user2",
                      target |-> "user1", result |-> "Not authorized"]
    /\ isCreditEvaluated["user1"]

\* C18: a submission succeeds exactly when its sender has not submitted before
\* and then marks the sender; a later one reverts with "Data already
\* submitted" and changes nothing; no submission touches another user's flag.
C18_SubmissionOncePerUser ==
    [][StepIs("submitCreditData") =>
          LET c == lastCall'[1].caller
              r == lastCall'[1].result
          IN  /\ r = "ok" <=> ~hasSubmittedCreditData[c]
              /\ r = "ok" => hasSubmittedCreditData'[c]
              /\ r # "ok" =>
                    /\ r = "Data already submitted"
                    /\ UNCHANGED <<hasSubmittedCreditData, isCreditEvaluated,
                                   totalEvaluations>>
              /\ \A u \in Users \ {c} :
                    hasSubmittedCreditData'[u] = hasSubmittedCreditData[u]
              /\ UNCHANGED <<isCreditEvaluated, totalEvaluations>>]_vars

\* user1 submitted a second time, after user2 had submitted too.
C18_Witness ==
    /\ lastCall # None
    /\ lastCall[1] = [fn |-> "submitCreditData", caller |-> "user1",
                      target |-> "user1", result |-> "Data already submitted"]
    /\ hasSubmittedCreditData["user1"] /\ hasSubmittedCreditData["user2"]
    /\ ~hasSubmittedCreditData[Owner]

----
\* C19: when the wait raises or returns no receipt, the last update of
\* trackTransaction is 'failed' with confirmations 0 and the message of the
\* error the wait ended with, that error is the one trackTransaction raises,
\* and executeTransaction classifies it: its own 'failed' update and the
\* error it throws carry the classification of that error.
C19_TrackerReraisesAfterFailedUpdate ==
    trackPc = "raised" =>
        /\ error # None
        /\ Last(TrackerUpdates) = Status(txHash, "failed", 0, Some(error[1].message))
        /\ pc \in {"tracking", "raised"}
        /\ pc = "tracking" => settled = << >> /\ Last(updates) = Last(TrackerUpdates)
        /\ pc = "raised" =>
              /\ settled = <<[kind |-> "reject", receipt |-> None,
                              message |-> UserMessage(error[1])]>>
              /\ Last(updates) = Status(None, "failed", 0, Some(UserMessage(error[1])))
              /\ updates[Len(updates) - 1] = Last(TrackerUpdates)

\* The wait raised an error whose classification differs from its message.
C19_Witness ==
    /\ trackPc = "raised" /\ pc = "raised"
    /\ error # Some(ReceiptNotFound)
    /\ UserMessage(error[1]) # error[1].message
    /\ Last(TrackerUpdates).error = Some(error[1].message)
    /\ settled[1].message = UserMessage(error[1])

\* C20: a returned estimate that sets both maxFeePerGas and
\* maxPriorityFeePerGas has maxFeePerGas >= maxPriorityFeePerGas.
C20_MaxFeeCoversPriorityFee ==
    estPc = "returned" =>
        LET est == gasEstimate[1]
        IN  (est.maxFeePerGas # None /\ est.maxPriorityFeePerGas # None)
                => est.maxFeePerGas[1] >= est.maxPriorityFeePerGas[1]

\* C21: a max fee in the fee data is the returned maxFeePerGas; without one,
\* a positive legacy price is the returned maxFeePerGas; the estimated cost
\* is the buffered gas limit times maxFeePerGas when set and times the legacy
\* price otherwise.
C21_FeeSchemeSelection ==
    (estPc = "returned" /\ rawGas # None) =>
        LET fd == feeData[1]
            est == gasEstimate[1]
            price == IF est.maxFeePerGas # None THEN est.maxFeePerGas[1] ELSE est.gasPrice
        IN  /\ fd.maxFeePerGas # None => est.maxFeePerGas = fd.maxFeePerGas
            /\ (fd.maxFeePerGas = None /\ fd.gasPrice # None /\ fd.gasPrice[1] > 0)
                  => est.maxFeePerGas = fd.gasPrice
            /\ est.estimatedCost = FormatCost(est.gasLimit * price)

\* C22: a computed estimate's gasLimit is the raw estimate times 120 divided by
\* 100, rounded down, and is never below the raw estimate.
C22_GasLimitIsBuffered ==
    (estPc = "returned" /\ rawGas # None) =>
        LET r == rawGas[1]
            limit == gasEstimate[1].gasLimit
        IN  /\ 100 * limit <= 120 * r
            /\ 120 * r < 100 * (limit + 1)
            /\ limit >= r

\* The raw estimate 5 is buffered to 6.
C22_Witness ==
    /\ estPc = "returned"
    /\ rawGas = Some(5)
    /\ gasEstimate[1].gasLimit = 6

\* The outcomes of the classification, in the order of its rules; the last
\* is the raw message passed through.
ClassificationOutcomes(err) ==
    <<<<"Transaction cancelled by user">>,
      <<"Transaction failed - ", "insufficient funds", " or contract error">>,
      <<"Insufficient ETH balance for gas fees">>,
      <<"Transaction rejected by user">>,
      <<"Contract execution failed - check your data">>,
      err.message>>

ClassificationRules(err) ==
    <<err.code = Some(4001),
      err.code = Some(-32603),
      Includes(err.message, "insufficient funds"),
      Includes(err.message, "user rejected"),
      Includes(err.message, "execution reverted"),
      TRUE>>

\* C23: code 4001 is shown as 'Transaction cancelled by user' and code -32603
\* as 'Transaction failed - insufficient funds or contract error' whatever the
\* message holds; otherwise the message rules apply in the order insufficient
\* funds, user rejected, execution reverted; the shown message is the outcome
\* of exactly one rule, the first that matches, and the 'failed' update and the
\* thrown error carry it alike.
C23_CodeTakesPrecedence ==
    pc = "raised" =>
        LET err == error[1]
            shown == settled[1].message
            first == CHOOSE k \in 1..6 :
                        ClassificationRules(err)[k] /\ \A j \in 1..(k - 1) : ~ClassificationRules(err)[j]
        IN  /\ err.code = Some(4001) => shown = <<"Transaction cancelled by user">>
            /\ err.code = Some(-32603) =>
                  shown = <<"Transaction failed - ", "insufficient funds", " or contract error">>
            /\ {k \in 1..6 : shown = ClassificationOutcomes(err)[k]} = {first}
            /\ Last(updates).error = Some(shown)

\* A cancelled signature whose message speaks of insufficient funds.
C23_Witness ==
    /\ pc = "raised"
    /\ error[1].code = Some(4001)
    /\ Includes(error[1].message, "insufficient funds")
    /\ settled[1].message = <<"Transaction cancelled by user">>

\* C25: the submission never carries both a legacy gasPrice and a
\* maxFeePerGas; it carries the legacy gasPrice, that of the estimate, exactly
\* when the estimate has a non-zero gasPrice and no maxFeePerGas.
C25_OneFeeSchemeSubmitted ==
    txRequest # None =>
        LET est == gasEstimate[1]
            sent == txRequest[1]
        IN  /\ ~(sent.gasPrice # None /\ sent.maxFeePerGas # None)
            /\ sent.gasPrice # None <=> (est.gasPrice # 0 /\ est.maxFeePerGas = None)
            /\ sent.gasPrice # None => sent.gasPrice = Some(est.gasPrice)
            /\ sent.maxFeePerGas = est.maxFeePerGas

\* A computed estimate with a legacy price and a max fee: only the max fee is sent.
C25_Witness ==
    /\ txRequest # None
    /\ gasEstimate[1].gasPrice = 1
    /\ gasEstimate[1].maxFeePerGas = Some(2)
    /\ txRequest[1].gasPrice = None
    /\ txRequest[1].maxFeePerGas = Some(2)

----
\* The FHE module (utils/fhe.ts): one shared instance handle, created on
\* demand by initializeFHE. Its async functions run up to their first await
\* in one step; a call suspended in createInstance, or in the awaits of
\* encryptCreditData, leaves the floor to the other callers.

NotInitialized == "FHE instance not initialized"

InitializationFailed == "Failed to initialize FHE encryption"

Did(fn, t, result) == lastFhe' = Some([fn |-> fn, task |-> t, result |-> result])

\* getFHEStatus().isInitialized
IsInitialized == fhevmInstance # None

\* The guard missing: the call goes on without an instance.
RequireInstance_Unchecked == "ok"

\* The guard of encryptUint32, encryptUint8 and decryptResult.
RequireInstance == IF fhevmInstance = None THEN NotInitialized ELSE "ok"

CanStart(t) == tasks[t].pc \in {"idle", "done"}

\* The synchronous part of initializeFHE, lines 18-24: the instance at hand is
\* returned, otherwise createInstance is called and awaited.
EnterInitialize(t, fn, resumeAt) ==
    IF fhevmInstance # None
    THEN tasks' = [tasks EXCEPT ![t] = [fn |-> fn, pc |-> resumeAt,
                                        instance |-> fhevmInstance, outcome |-> "ok"]]
    ELSE /\ created < MaxCreated
         /\ tasks' = [tasks EXCEPT ![t] = [fn |-> fn, pc |-> "creating",
                                           instance |-> None, outcome |-> "none"]]

InitializeFHE ==
    /\ \E t \in Tasks :
          /\ CanStart(t)
          /\ EnterInitialize(t, "initializeFHE", "done")
          /\ Did("initializeFHE", t, IF IsInitialized THEN "ok" ELSE "suspended")
    /\ UNCHANGED <<fhevmInstance, created, instances>>
    /\ UNCHANGED <<frameVars, active, parked, contractVars>>

\* encryptCreditData is called and awaits initializeFHE.
EncryptCreditData ==
    /\ \E t \in Tasks :
          /\ CanStart(t)
          /\ EnterInitialize(t, "encryptCreditData", "awaitingInit")
          /\ Did("encryptCreditData", t, "suspended")
    /\ UNCHANGED <<fhevmInstance, created, instances>>
    /\ UNCHANGED <<frameVars, active, parked, contractVars>>

\* createInstance resolves: the new instance is stored in the shared handle
\* and returned.
CreateInstanceResolves ==
    /\ \E t \in Tasks :
          /\ tasks[t].pc = "creating"
          /\ created' = created + 1
          /\ fhevmInstance' = Some(created')
          /\ instances' = Append(instances, created')
          /\ tasks' = [tasks EXCEPT ![t] =
                [fn |-> tasks[t].fn,
                 pc |-> IF tasks[t].fn = "initializeFHE" THEN "done" ELSE "awaitingInit",
                 instance |-> Some(created'), outcome |-> "ok"]]
          /\ Did("createInstance", t, "ok")
    /\ UNCHANGED <<frameVars, active, parked, contractVars>>

\* createInstance rejects: initializeFHE throws its own error, which
\* encryptCreditData lets through.
CreateInstanceRejects ==
    /\ \E t \in Tasks :
          /\ tasks[t].pc = "creating"
          /\ tasks' = [tasks EXCEPT ![t] =
                [@ EXCEPT !.pc = "done", !.outcome = InitializationFailed]]
          /\ Did("createInstance", t, InitializationFailed)
    /\ UNCHANGED <<fhevmInstance, created, instances>>
    /\ UNCHANGED <<frameVars, active, parked, contractVars>>

\* encryptCreditData resumes after initializeFHE and calls the five
\* encryptions, each of which checks the shared handle.
EncryptFields ==
    /\ \E t \in Tasks :
          /\ tasks[t].pc = "awaitingInit"
          /\ tasks' = [tasks EXCEPT ![t] = [@ EXCEPT !.pc = "awaitingAll",
                                                     !.outcome = RequireInstance]]
          /\ Did("encryptFields", t, RequireInstance)
    /\ UNCHANGED <<fhevmInstance, created, instances>>
    /\ UNCHANGED <<frameVars, active, parked, contractVars>>

\* encryptCreditData resumes after Promise.all and returns, or throws the
\* first rejection.
EncryptCreditDataSettles ==
    /\ \E t \in Tasks :
          /\ tasks[t].pc = "awaitingAll"
          /\ tasks' = [tasks EXCEPT ![t] = [@ EXCEPT !.pc = "done"]]
          /\ Did("encryptCreditData settles", t, tasks[t].outcome)
    /\ UNCHANGED <<fhevmInstance, created, instances>>
    /\ UNCHANGED <<frameVars, active, parked, contractVars>>

EncryptUint32 ==
    /\ Did("encryptUint32", 0, RequireInstance)
    /\ UNCHANGED <<fhevmInstance, created, instances, tasks>>
    /\ UNCHANGED <<frameVars, active, parked, contractVars>>

EncryptUint8 ==
    /\ Did("encryptUint8", 0, RequireInstance)
    /\ UNCHANGED <<fhevmInstance, created, instances, tasks>>
    /\ UNCHANGED <<frameVars, active, parked, contractVars>>

DecryptResult ==
    /\ Did("decryptResult", 0, RequireInstance)
    /\ UNCHANGED <<fhevmInstance, created, instances, tasks>>
    /\ UNCHANGED <<frameVars, active, parked, contractVars>>

GetFHEStatus ==
    /\ Did("getFHEStatus", 0, IF IsInitialized THEN "initialized" ELSE "not initialized")
    /\ UNCHANGED <<fhevmInstance, created, instances, tasks>>
    /\ UNCHANGED <<frameVars, active, parked, contractVars>>

ResetFHE ==
    /\ fhevmInstance' = None
    /\ instances' = << >>
    /\ Did("resetFHE", 0, "ok")
    /\ UNCHANGED <<created, tasks>>
    /\ UNCHANGED <<frameVars, active, parked, contractVars>>

NextFHE ==
    \/ InitializeFHE
    \/ EncryptCreditData
    \/ CreateInstanceResolves
    \/ CreateInstanceRejects
    \/ EncryptFields
    \/ EncryptCreditDataSettles
    \/ EncryptUint32
    \/ EncryptUint8
    \/ DecryptResult
    \/ GetFHEStatus
    \/ ResetFHE

SpecFHE == Init /\ [][NextFHE]_vars

\* The step of the FHE module a transition took.
FheStepIs(fn) == lastFhe' # None /\ lastFhe'[1].fn = fn

\* The instances stored in the shared handle since the last resetFHE.
StoredSinceReset == {instances[i] : i \in 1..Len(instances)}

----
\* C24 as stated: a call of encryptUint32, encryptUint8 or decryptResult made
\* while there is no instance fails with 'FHE instance not initialized', and
\* when encryptCreditData has succeeded the module is initialized.
C24_InitializedAfterSuccess ==
    lastFhe # None =>
        /\ (lastFhe[1].fn \in {"encryptUint32", "encryptUint8", "decryptResult"}
               /\ ~IsInitialized)
              => lastFhe[1].result = "FHE instance not initialized"
        /\ (lastFhe[1].fn = "encryptCreditData settles" /\ lastFhe[1].result = "ok")
              => IsInitialized

\* C24 amended: a call of encryptUint32, encryptUint8 or decryptResult made while
\* there is no instance fails with 'FHE instance not initialized' and changes
\* nothing; the encryptions of encryptCreditData run after its initializeFHE
\* has returned an instance and succeed only with an instance in the shared
\* handle, which only resetFHE clears, so that a successful encryptCreditData
\* leaves the module initialized for as long as nobody resets it.
C24_UninitializedCallsFail ==
    [][/\ ((FheStepIs("encryptUint32") \/ FheStepIs("encryptUint8")
               \/ FheStepIs("decryptResult")) /\ ~IsInitialized)
             => /\ lastFhe'[1].result = "FHE instance not initialized"
                /\ UNCHANGED <<fhevmInstance, created, instances, tasks>>
       /\ FheStepIs("encryptFields") =>
             LET t == lastFhe'[1].task
             IN  /\ tasks[t].instance # None
                 /\ lastFhe'[1].result = "ok" <=> IsInitialized
                 /\ tasks'[t].outcome = lastFhe'[1].result
                 /\ UNCHANGED fhevmInstance
       /\ (IsInitialized /\ ~IsInitialized') => FheStepIs("resetFHE")
       /\ \A t \in Tasks :
             (/\ tasks'[t].fn = "encryptCreditData"
              /\ tasks'[t].pc \in {"awaitingAll", "done"}
              /\ tasks'[t].outcome = "ok"
              /\ tasks'[t].instance[1] \in StoredSinceReset')
                => IsInitialized'
       /\ (FheStepIs("getFHEStatus") /\ IsInitialized)
             => lastFhe'[1].result = "initialized"]_vars

\* An encryptCreditData initialized the module and succeeded; after a reset
\* an encryption was refused.
C24_Witness ==
    /\ lastFhe = Some([fn |-> "encryptUint8", task |-> 0,
                       result |-> "FHE instance not initialized"])
    /\ fhevmInstance = None
    /\ created = 1
    /\ \E t \in Tasks :
          /\ tasks[t].fn = "encryptCreditData"
          /\ tasks[t].pc = "done"
          /\ tasks[t].outcome = "ok"
          /\ tasks[t].instance = Some(1)

\* C26: since the last resetFHE at most one instance was created and stored,
\* the shared handle holds that first one, and every call that was handed an
\* instance since then was handed that one.
C26_CreatedOncePerReset ==
    /\ Len(instances) <= 1
    /\ fhevmInstance # None => fhevmInstance = Some(instances[1])
    /\ \A t \in Tasks :
          (tasks[t].instance # None /\ tasks[t].instance[1] \in StoredSinceReset)
              => tasks[t].instance = Some(instances[1])

====
